---- MODULE Spec2Model ----
(***************************************************************************)
(* Password Portal: the one-time disclosure protocol of                    *)
(* functions/src/index.ts (createPasswordLink, checkPasswordLink,          *)
(* viewPassword, regeneratePasswordLink, api, createApiKey,                *)
(* sendPasswordEmail), the queue page's revoke action, the settings page's *)
(* edits of credentials and of the IP allow-list, and                      *)
(* functions/src/utils/encryption.ts.                                      *)
(*                                                                         *)
(* Spec is the disclosure protocol with fixed settings; SpecRace the race  *)
(* of recipients for one link; SpecGate every request, admitted or not, of *)
(* the gated operations; SpecKeys and SpecAllow the api while credentials, *)
(* respectively the allow-list, are edited; SpecContend the race with a    *)
(* store that aborts commits; SpecValid creation from any recipient        *)
(* address; SpecCrypto encryptPassword and decryptPassword on their own;   *)
(* SpecPage the public viewer page.                                        *)
(*                                                                         *)
(* Every request is a call: a record holding the handler's position (pc),  *)
(* its local variables and, once it has returned, its response.  A handler *)
(* is cut at its await points that touch the store, the mail server or the *)
(* audit log; calls interleave freely between those points.                *)
(*                                                                         *)
(* Timestamps are abstracted to "unset"/"set".  The queue page's delete    *)
(* action (an administrative removal of the record) is not modelled.      *)
(***************************************************************************)
EXTENDS Integers, Sequences, FiniteSets, TLC

\* ------------------------------------------------------------------ bounds
\* Number of identifiers uuidv4() hands out in one behaviour.
MaxLinks == 2
\* Number of requests issued in one behaviour.
NumCalls == 3

LinkIds == 1..MaxLinks
Calls == 1..NumCalls

\* ----------------------------------------------------------- configuration
\* defineSecret('PASSWORD_ENCRYPTION_KEY'): a valid 32-byte key.
encryptionKey == "K32"
\* crypto.randomBytes(IV_LENGTH): the values a fresh IV may take.
IVs == {"iv1"}
\* Secrets a creator may submit; "" is the missing/empty password.
Passwords == {"Sunset42", "Tiger7"}
PasswordInputs == Passwords \cup {""}
\* Recipient addresses a creator may submit; "" is the missing address.
EmailInputs == {"", "alice@example.org"}
\* request.auth: "anon" has no auth, "ghost" is signed in without a users
\* record, the others have the users record named by users ("intern" with
\* a role the functions do not know).
Callers == {"anon", "ghost", "intern", "tech", "admin"}
users == [intern |-> "viewer", tech |-> "technician", admin |-> "admin"]
\* request.rawRequest.ip of a recipient.
ViewerIP == "203.0.113.9"
\* Firestore's default number of attempts of runTransaction.
MaxAttempts == 5
\* generateApiKey(): random bytes in base64url, a sequence of characters
\* longer than the 8 of keyPrefix; tag tells the keys apart.
RawKey(tag) == <<tag, "q", "7", "X", "w", "2", "L", "m", "Z">>
\* The keys generateApiKey() may return in createApiKey.
GeneratedKeys == {RawKey("C")}
\* req.method, the X-API-Key header (<<>> is a missing header; key X was
\* never issued) and req.ip.
Methods == {"POST", "GET"}
ApiKeyInputs == {<<>>, RawKey("A"), RawKey("B"), RawKey("C"), RawKey("X")}
ClientIPs == {"10.0.0.1", "10.0.0.2"}
\* request.data.name of createApiKey; "" is the missing name.
KeyNames == {"", "Salamander"}
\* The ids Firestore gives to documents added to api_keys.
KeyDocIds == {"keyA", "keyB", "keyC"}
\* What an admin may type into the IP allow-list form: a single address or
\* a CIDR range.
WhitelistEntries == {"10.0.0.2", "10.0.0.0/31"}

\* ------------------------------------------------------------------ crypto
\* AES-256-GCM, symbolically: the ciphertext names the key, the IV and the
\* plaintext it was made from; the tag is computed over key, IV and
\* ciphertext.  Hex strings are sequences, the empty string is <<>>.
GcmTag(key, iv, ct) == <<"gcm", key, iv>> \o ct

\* A string that is not well-formed UTF-16: "Tiger" followed by the unpaired
\* surrogate U+D800.
IllFormedPasswords == {"Tiger<D800>"}

\* cipher.update(password, 'utf8', ...): the string's UTF-8 bytes.  An
\* unpaired surrogate has no UTF-8 form and is written as U+FFFD.  The
\* bytes are named by the string they decode to.
Utf8(password) ==
  IF password = "Tiger<D800>" THEN "Tiger<FFFD>" ELSE password

\* An object whose iv and authTag fields are taken from each other.
encryptPasswordSwapped(password, key, iv) ==
  LET ct == IF password = "" THEN <<>> ELSE <<"aes", key, iv, Utf8(password)>>
  IN  [encryptedPassword |-> ct, iv |-> GcmTag(key, iv, ct), authTag |-> <<iv>>]

\* The ciphertext of the empty string is the empty hex string.
encryptPassword(password, key, iv) ==
  LET ct == IF password = "" THEN <<>> ELSE <<"aes", key, iv, Utf8(password)>>
  IN  [encryptedPassword |-> ct, iv |-> <<iv>>, authTag |-> GcmTag(key, iv, ct)]

\* What the cipher turns ct into under (key, iv), before the tag is checked.
GcmPlain(key, iv, ct) ==
  IF ct = <<>> THEN ""
  ELSE IF ct[2] = key /\ ct[3] = iv THEN ct[4] ELSE "garbage"

\* [ok |-> TRUE, value |-> plaintext] or, when createDecipheriv, setAuthTag
\* or final() throws, [ok |-> FALSE, ...].
decryptPassword(encryptedPassword, iv, authTag, key) ==
  IF iv = <<>> \/ authTag = <<>>
    THEN [ok |-> FALSE, value |-> ""]
  ELSE IF authTag # GcmTag(key, iv[1], encryptedPassword)
    THEN [ok |-> FALSE, value |-> ""]
  ELSE [ok |-> TRUE, value |-> GcmPlain(key, iv[1], encryptedPassword)]

\* crypto.createHash('sha256').update(apiKey).digest('hex').
hashApiKey(apiKey) == <<"sha256", apiKey>>

\* --------------------------------------------------------------- documents
\* A passwords/{id} document; NoDoc stands for "no such document".
NoDoc ==
  [status |-> "none", encryptedPassword |-> <<>>, iv |-> <<>>, authTag |-> <<>>,
   recipientEmail |-> "", emailSent |-> FALSE, emailSentAt |-> "unset",
   viewedAt |-> "unset", viewedFromIP |-> "", source |-> "",
   regeneratedFrom |-> 0, regeneratedTo |-> 0]

\* The passwordDoc literal of createPasswordLink and regeneratePasswordLink.
NewPasswordDoc(encrypted, recipientEmail) ==
  [NoDoc EXCEPT !.status = "pending",
                !.encryptedPassword = encrypted.encryptedPassword,
                !.iv = encrypted.iv,
                !.authTag = encrypted.authTag,
                !.recipientEmail = recipientEmail,
                !.emailSent = FALSE,
                !.source = "dashboard"]

\* The passwordDoc literal of api.
ApiPasswordDoc(encrypted, recipientEmail, sendEmail) ==
  [NoDoc EXCEPT !.status = IF sendEmail THEN "sent" ELSE "pending",
                !.encryptedPassword = encrypted.encryptedPassword,
                !.iv = encrypted.iv,
                !.authTag = encrypted.authTag,
                !.recipientEmail = recipientEmail,
                !.emailSent = sendEmail,
                !.emailSentAt = IF sendEmail THEN "set" ELSE "unset",
                !.source = "api"]

\* update({status: 'sent', emailSent: true, emailSentAt: now}).
SentUpdate(doc) ==
  [doc EXCEPT !.status = "sent", !.emailSent = TRUE, !.emailSentAt = "set"]

\* An update that forgets to clear the iv.
ViewedUpdateKeepsIv(doc, ip) ==
  [doc EXCEPT !.status = "viewed", !.viewedAt = "set", !.viewedFromIP = ip,
              !.encryptedPassword = <<>>, !.authTag = <<>>]

\* transaction.update(docRef, {status: 'viewed', viewedAt, viewedFromIP,
\* encryptedPassword: '', iv: '', authTag: ''}).
ViewedUpdate(doc, ip) ==
  [doc EXCEPT !.status = "viewed", !.viewedAt = "set", !.viewedFromIP = ip,
              !.encryptedPassword = <<>>, !.iv = <<>>, !.authTag = <<>>]

\* updateDoc(doc(db, 'passwords', id), {status: 'revoked'}).
RevokedUpdate(doc) == [doc EXCEPT !.status = "revoked"]

\* transaction.update(original, {status: 'revoked', regeneratedTo: newLinkId}).
RegeneratedUpdate(doc, newLinkId) ==
  [doc EXCEPT !.status = "revoked", !.regeneratedTo = newLinkId]

\* A hash function left out: the key is stored as it is.
ApiKeyDocPlain(name, apiKey) ==
  [name |-> name, keyHash |-> apiKey, keyPrefix |-> SubSeq(apiKey, 1, 8),
   active |-> TRUE, lastUsed |-> "unset"]

\* The api_keys document createApiKey adds (lines 600-608): the hash and the
\* first 8 characters of the key.
ApiKeyDoc(name, apiKey) ==
  [name |-> name, keyHash |-> hashApiKey(apiKey), keyPrefix |-> SubSeq(apiKey, 1, 8),
   active |-> TRUE, lastUsed |-> "unset"]

\* The credentials an admin has created: keyA is active, keyB has been
\* deactivated on the settings page.
ProvisionedKeys ==
  [keyA |-> ApiKeyDoc("Salamander", RawKey("A")),
   keyB |-> [ApiKeyDoc("Legacy", RawKey("B")) EXCEPT !.active = FALSE]]

\* data.status === 'viewed' || 'expired' || 'revoked'.
IsUsed(status) == status \in {"viewed", "expired", "revoked"}

\* ------------------------------------------------------------------- state
VARIABLES
  passwords,   \* the passwords collection: LinkIds -> document or NoDoc
  nextId,      \* the next identifier uuidv4() returns
  audit_logs,  \* the audit_logs collection, in order of insertion
  outbox,      \* links whose notification mail the SMTP server accepted
  api_keys,    \* the api_keys collection: key document id -> document
  ip_whitelist,\* the ip fields of the ip_whitelist collection
  calls,       \* the requests: Calls -> call record
  secrets,     \* history: the password submitted when each link was created
  revokedIds   \* history: the links that have been revoked

vars == <<passwords, nextId, audit_logs, outbox, api_keys, ip_whitelist, calls,
          secrets, revokedIds>>

IdleCall ==
  [op |-> "none", pc |-> "idle", id |-> 0, orig |-> 0, key |-> "", pw |-> "",
   send |-> FALSE, apiKey |-> <<>>,
   snap |-> NoDoc, plain |-> "", attempts |-> 0,
   committed |-> FALSE, fault |-> "none", result |-> "none", ret |-> ""]

Init ==
  /\ passwords = [i \in LinkIds |-> NoDoc]
  /\ nextId = 1
  /\ audit_logs = <<>>
  /\ outbox = {}
  /\ api_keys = ProvisionedKeys
  /\ ip_whitelist = {}
  /\ calls = [c \in Calls |-> IdleCall]
  /\ secrets = [i \in LinkIds |-> ""]
  /\ revokedIds = {}

\* A generator that hands out the identifier it handed out before.
uuidReused == IF nextId > 1 THEN nextId - 1 ELSE nextId

\* uuidv4(): an identifier no document has had.
uuidv4 == nextId

\* Requests are numbered in order of arrival.
Arrives(c) ==
  /\ calls[c].pc = "idle"
  /\ \A d \in Calls : d < c => calls[d].pc # "idle"

\* The call returns: its locals are dropped, its response is kept (the code
\* of an HttpsError, the HTTP status of api, or "ok"; ret is the password
\* field of viewPassword's response).
Return(c, result, ret) ==
  [IdleCall EXCEPT !.op = calls[c].op, !.pc = "done", !.id = calls[c].id,
                   !.orig = calls[c].orig,
                   !.committed = calls[c].committed, !.fault = calls[c].fault,
                   !.result = result, !.ret = ret]

\* A call rejected on arrival, before it touched anything.
Rejected(op, id, result) ==
  [IdleCall EXCEPT !.op = op, !.pc = "done", !.id = id, !.result = result]

AuditRecord(action, targetId) == [action |-> action, targetId |-> targetId]

\* A gate that forgets the !userDoc.exists test.
StaffGateNoRecord(caller) ==
  IF caller = "anon" THEN "unauthenticated"
  ELSE IF caller \in DOMAIN users /\ users[caller] \notin {"admin", "technician"}
    THEN "permission-denied"
  ELSE ""

\* The role gate of the dashboard callables: "" when the caller passes,
\* otherwise the HttpsError code.
StaffGate(caller) ==
  IF caller = "anon" THEN "unauthenticated"
  ELSE IF caller \notin DOMAIN users THEN "permission-denied"
  ELSE IF users[caller] \notin {"admin", "technician"} THEN "permission-denied"
  ELSE ""

\* A query without the where('active', '==', true) clause.
ActiveKeysAnyState(keyHash) ==
  {k \in DOMAIN api_keys : api_keys[k].keyHash = keyHash}

\* where('keyHash', '==', keyHash).where('active', '==', true).
ActiveKeys(keyHash) ==
  {k \in DOMAIN api_keys : api_keys[k].keyHash = keyHash /\ api_keys[k].active}

\* ------------------------------------------------------ createPasswordLink
\* Lines 49-94 for one request: the checks, uuidv4(), encryptPassword and
\* set().
CreateCall(c, caller, recipientEmail, password, sendNotification, iv) ==
  /\ Arrives(c)
  /\   IF caller = "anon"
         THEN /\ calls' = [calls EXCEPT ![c] = Rejected("create", 0, "unauthenticated")]
              /\ UNCHANGED <<passwords, nextId, secrets>>
       ELSE IF recipientEmail = "" \/ password = ""
         THEN /\ calls' = [calls EXCEPT ![c] = Rejected("create", 0, "invalid-argument")]
              /\ UNCHANGED <<passwords, nextId, secrets>>
       ELSE IF StaffGate(caller) # ""
         THEN /\ calls' = [calls EXCEPT ![c] = Rejected("create", 0, StaffGate(caller))]
              /\ UNCHANGED <<passwords, nextId, secrets>>
       ELSE /\ nextId <= MaxLinks
            /\ passwords' = [passwords EXCEPT ![uuidv4] =
                 NewPasswordDoc(encryptPassword(password, encryptionKey, iv), recipientEmail)]
            /\ secrets' = [secrets EXCEPT ![uuidv4] = password]
            /\ nextId' = nextId + 1
            /\ calls' = [calls EXCEPT ![c] =
                 [IdleCall EXCEPT !.op = "create", !.pc = "audit", !.id = uuidv4,
                                  !.send = sendNotification, !.committed = TRUE]]
  /\ UNCHANGED <<audit_logs, outbox, api_keys, ip_whitelist, revokedIds>>

CreateBegin(c) ==
  \E caller \in Callers, recipientEmail \in EmailInputs,
     password \in PasswordInputs, sendNotification \in BOOLEAN, iv \in IVs :
    CreateCall(c, caller, recipientEmail, password, sendNotification, iv)

\* Lines 96-109: the audit record; a failed add() reaches the outer catch.
CreateAudit(c) ==
  /\ calls[c].op = "create" /\ calls[c].pc = "audit"
  /\ \/ /\ audit_logs' = Append(audit_logs, AuditRecord("create", calls[c].id))
        /\ calls' = [calls EXCEPT ![c] =
             IF calls[c].send THEN [calls[c] EXCEPT !.pc = "mail"]
             ELSE Return(c, "ok", "")]
     \/ /\ UNCHANGED audit_logs
        /\ calls' = [calls EXCEPT ![c] =
             [Return(c, "internal", "") EXCEPT !.fault = "audit"]]
  /\ UNCHANGED <<passwords, nextId, outbox, api_keys, ip_whitelist, secrets, revokedIds>>

\* A handler without the inner try/catch around sendMail: the failure
\* reaches the outer catch.
CreateMailThrows(c) ==
  /\ calls[c].op = "create" /\ calls[c].pc = "mail"
  /\ \/ /\ outbox' = outbox \cup {calls[c].id}
        /\ calls' = [calls EXCEPT ![c].pc = "update"]
     \/ /\ UNCHANGED outbox
        /\ calls' = [calls EXCEPT ![c] =
             [Return(c, "internal", "") EXCEPT !.fault = "smtp"]]
  /\ UNCHANGED <<passwords, nextId, audit_logs, api_keys, ip_whitelist, secrets, revokedIds>>

\* Lines 114-159: sendMail; a failure is caught and logged.
CreateMail(c) ==
  /\ calls[c].op = "create" /\ calls[c].pc = "mail"
  /\ \/ /\ outbox' = outbox \cup {calls[c].id}
        /\ calls' = [calls EXCEPT ![c].pc = "update"]
     \/ /\ UNCHANGED outbox
        /\ calls' = [calls EXCEPT ![c] =
             [Return(c, "ok", "") EXCEPT !.fault = "smtp"]]
  /\ UNCHANGED <<passwords, nextId, audit_logs, api_keys, ip_whitelist, secrets, revokedIds>>

\* Lines 161-179: the post-send update and the response.
CreateUpdate(c) ==
  /\ calls[c].op = "create" /\ calls[c].pc = "update"
  /\ passwords' = [passwords EXCEPT ![calls[c].id] = SentUpdate(@)]
  /\ calls' = [calls EXCEPT ![c] = Return(c, "ok", "")]
  /\ UNCHANGED <<nextId, audit_logs, outbox, api_keys, ip_whitelist, secrets, revokedIds>>

\* ------------------------------------------------------- checkPasswordLink
\* A check that only looks whether the document exists.
checkPasswordLinkExists(id) ==
  IF passwords[id] = NoDoc THEN [valid |-> FALSE] ELSE [valid |-> TRUE]

\* Lines 200-217 on the current store.
checkPasswordLink(id) ==
  IF passwords[id] = NoDoc THEN [valid |-> FALSE]
  ELSE IF IsUsed(passwords[id].status) THEN [valid |-> FALSE]
  ELSE [valid |-> TRUE]

CheckPasswordLink(c) ==
  /\ Arrives(c)
  /\ \E id \in LinkIds \cup {0} :
       calls' = [calls EXCEPT ![c] =
         IF id = 0 THEN Rejected("check", 0, "invalid-argument")
         ELSE Rejected("check", id,
                IF checkPasswordLink(id).valid THEN "valid" ELSE "invalid")]
  /\ UNCHANGED <<passwords, nextId, audit_logs, outbox, api_keys, ip_whitelist, secrets, revokedIds>>

\* ------------------------------------------------------------ viewPassword
\* A callback that goes on with an empty password when decryption throws.
ViewDecisionLenient(doc) ==
  IF doc = NoDoc THEN [outcome |-> "not-found", password |-> ""]
  ELSE IF doc.status \in {"viewed", "expired", "revoked"}
    THEN [outcome |-> "failed-precondition", password |-> ""]
  ELSE LET d == decryptPassword(doc.encryptedPassword, doc.iv, doc.authTag, encryptionKey)
       IN  [outcome |-> "ok", password |-> d.value]

\* What the transaction's callback decides on the document it read
\* (lines 243-260): the HttpsError it throws, "crypto" when decryptPassword
\* throws, or "ok" with the plaintext.
ViewDecision(doc) ==
  IF doc = NoDoc THEN [outcome |-> "not-found", password |-> ""]
  ELSE IF IsUsed(doc.status) THEN [outcome |-> "failed-precondition", password |-> ""]
  ELSE LET d == decryptPassword(doc.encryptedPassword, doc.iv, doc.authTag, encryptionKey)
       IN  IF d.ok THEN [outcome |-> "ok", password |-> d.value]
           ELSE [outcome |-> "crypto", password |-> ""]

\* A read followed by a write with no transaction around them.
TransactionUnchecked(snap, current) == TRUE

\* runTransaction commits only if nothing it read has changed since.
TransactionValid(snap, current) == snap = current

\* Lines 231-235.
ViewBegin(c) ==
  /\ Arrives(c)
  /\ \E id \in LinkIds \cup {0} :
       calls' = [calls EXCEPT ![c] =
         IF id = 0 THEN Rejected("view", 0, "invalid-argument")
         ELSE [IdleCall EXCEPT !.op = "view", !.pc = "txn", !.id = id, !.attempts = 1]]
  /\ UNCHANGED <<passwords, nextId, audit_logs, outbox, api_keys, ip_whitelist, secrets, revokedIds>>

\* A callback that writes the audit record itself, before the commit.
ViewTxnReadAudits(c) ==
  /\ calls[c].op = "view" /\ calls[c].pc = "txn"
  /\ LET doc == passwords[calls[c].id]
         dec == ViewDecision(doc)
     IN  /\ calls' = [calls EXCEPT ![c] =
               IF dec.outcome = "ok"
                 THEN [calls[c] EXCEPT !.pc = "commit", !.snap = doc, !.plain = dec.password]
               ELSE IF dec.outcome = "crypto"
                 THEN [Return(c, "internal", "") EXCEPT !.fault = "crypto"]
               ELSE Return(c, dec.outcome, "")]
         /\ audit_logs' = IF dec.outcome = "ok"
                            THEN Append(audit_logs, AuditRecord("view", calls[c].id))
                          ELSE audit_logs
  /\ UNCHANGED <<passwords, nextId, outbox, api_keys, ip_whitelist, secrets, revokedIds>>

\* Lines 239-260: transaction.get and the callback's decision.  A throw
\* rolls the transaction back and is rethrown to the outer catch
\* (an HttpsError as it is, anything else as 'internal').
ViewTxnRead(c) ==
  /\ calls[c].op = "view" /\ calls[c].pc = "txn"
  /\ LET doc == passwords[calls[c].id]
         dec == ViewDecision(doc)
     IN  calls' = [calls EXCEPT ![c] =
           IF dec.outcome = "ok"
             THEN [calls[c] EXCEPT !.pc = "commit", !.snap = doc, !.plain = dec.password]
           ELSE IF dec.outcome = "crypto"
             THEN [Return(c, "internal", "") EXCEPT !.fault = "crypto"]
           ELSE Return(c, dec.outcome, "")]
  /\ UNCHANGED <<passwords, nextId, audit_logs, outbox, api_keys, ip_whitelist, secrets, revokedIds>>

\* A read and an update with no transaction around them: the update is
\* written whatever has happened to the document since the read.
ViewTxnCommitBlind(c) ==
  /\ calls[c].op = "view" /\ calls[c].pc = "commit"
  /\ passwords' = [passwords EXCEPT ![calls[c].id] = ViewedUpdate(@, ViewerIP)]
  /\ calls' = [calls EXCEPT ![c] =
       [calls[c] EXCEPT !.pc = "audit", !.snap = NoDoc, !.committed = TRUE]]
  /\ UNCHANGED <<nextId, audit_logs, outbox, api_keys, ip_whitelist, secrets, revokedIds>>

\* Lines 262-277: the buffered update is committed, or the attempt is
\* aborted because the document changed and the callback runs again; after
\* MaxAttempts the abort is rethrown.
ViewTxnCommit(c) ==
  /\ calls[c].op = "view" /\ calls[c].pc = "commit"
  /\ IF TransactionValid(calls[c].snap, passwords[calls[c].id])
       THEN /\ passwords' = [passwords EXCEPT ![calls[c].id] = ViewedUpdate(@, ViewerIP)]
            /\ calls' = [calls EXCEPT ![c] =
                 [calls[c] EXCEPT !.pc = "audit", !.snap = NoDoc, !.committed = TRUE]]
       ELSE /\ UNCHANGED passwords
            /\ calls' = [calls EXCEPT ![c] =
                 IF calls[c].attempts < MaxAttempts
                   THEN [calls[c] EXCEPT !.pc = "txn", !.snap = NoDoc, !.plain = "",
                                         !.attempts = @ + 1]
                 ELSE [Return(c, "internal", "") EXCEPT !.fault = "contention"]]
  /\ UNCHANGED <<nextId, audit_logs, outbox, api_keys, ip_whitelist, secrets, revokedIds>>

\* An abort that is retried without being counted.
ViewTxnAbortUnbounded(c) ==
  /\ calls[c].op = "view" /\ calls[c].pc = "commit"
  /\ calls' = [calls EXCEPT ![c] =
       [calls[c] EXCEPT !.pc = "txn", !.snap = NoDoc, !.plain = ""]]
  /\ UNCHANGED <<passwords, nextId, audit_logs, outbox, api_keys, ip_whitelist,
                 secrets, revokedIds>>

\* Lines 239-277 and 289-293 when the store aborts the commit for
\* contention (ABORTED): nothing is written, runTransaction runs the
\* callback again until MaxAttempts attempts have been made and then
\* rejects with the store's error, which the catch block turns into
\* 'internal'.
ViewTxnAbort(c) ==
  /\ calls[c].op = "view" /\ calls[c].pc = "commit"
  /\ calls' = [calls EXCEPT ![c] =
       IF calls[c].attempts < MaxAttempts
         THEN [calls[c] EXCEPT !.pc = "txn", !.snap = NoDoc, !.plain = "",
                               !.attempts = @ + 1]
       ELSE [Return(c, "internal", "") EXCEPT !.fault = "contention"]]
  /\ UNCHANGED <<passwords, nextId, audit_logs, outbox, api_keys, ip_whitelist,
                 secrets, revokedIds>>

\* Lines 279-293: the audit record, then the response.
ViewAudit(c) ==
  /\ calls[c].op = "view" /\ calls[c].pc = "audit"
  /\ \/ /\ audit_logs' = Append(audit_logs, AuditRecord("view", calls[c].id))
        /\ calls' = [calls EXCEPT ![c] = Return(c, "ok", calls[c].plain)]
     \/ /\ UNCHANGED audit_logs
        /\ calls' = [calls EXCEPT ![c] =
             [Return(c, "internal", "") EXCEPT !.fault = "audit"]]
  /\ UNCHANGED <<passwords, nextId, outbox, api_keys, ip_whitelist, secrets, revokedIds>>

\* -------------------------------------------------- regeneratePasswordLink
\* Lines 303-351 for one request: the checks, the read of the original,
\* uuidv4() and encryptPassword.
RegenerateCall(c, caller, originalId, password) ==
  /\ Arrives(c)
  /\   IF caller = "anon"
         THEN /\ calls' = [calls EXCEPT ![c] = Rejected("regenerate", 0, "unauthenticated")]
              /\ UNCHANGED nextId
       ELSE IF originalId = 0 \/ password = ""
         THEN /\ calls' = [calls EXCEPT ![c] = Rejected("regenerate", 0, "invalid-argument")]
              /\ UNCHANGED nextId
       ELSE IF StaffGate(caller) # ""
         THEN /\ calls' = [calls EXCEPT ![c] = Rejected("regenerate", 0, StaffGate(caller))]
              /\ UNCHANGED nextId
       ELSE IF passwords[originalId] = NoDoc
         THEN /\ calls' = [calls EXCEPT ![c] = Rejected("regenerate", 0, "not-found")]
              /\ UNCHANGED nextId
       ELSE /\ nextId <= MaxLinks
            /\ nextId' = nextId + 1
            /\ calls' = [calls EXCEPT ![c] =
                 [IdleCall EXCEPT !.op = "regenerate", !.pc = "txn", !.id = uuidv4,
                                  !.orig = originalId, !.pw = password,
                                  !.snap = passwords[originalId]]]
  /\ UNCHANGED <<passwords, audit_logs, outbox, api_keys, ip_whitelist, secrets, revokedIds>>

RegenerateBegin(c) ==
  \E caller \in Callers, originalId \in LinkIds \cup {0}, password \in PasswordInputs :
    RegenerateCall(c, caller, originalId, password)

\* Lines 353-366: one write-only transaction revokes the original and
\* creates the new document; if the commit fails neither write is applied.
RegenerateTxn(c) ==
  /\ calls[c].op = "regenerate" /\ calls[c].pc = "txn"
  /\ \/ /\ \E iv \in IVs :
             passwords' = [passwords EXCEPT
               ![calls[c].orig] = RegeneratedUpdate(@, calls[c].id),
               ![calls[c].id] =
                  [NewPasswordDoc(encryptPassword(calls[c].pw, encryptionKey, iv),
                                  calls[c].snap.recipientEmail)
                     EXCEPT !.regeneratedFrom = calls[c].orig]]
        /\ secrets' = [secrets EXCEPT ![calls[c].id] = calls[c].pw]
        /\ revokedIds' = revokedIds \cup {calls[c].orig}
        /\ calls' = [calls EXCEPT ![c] =
             [calls[c] EXCEPT !.pc = "audit", !.snap = NoDoc, !.committed = TRUE]]
     \/ /\ UNCHANGED <<passwords, secrets, revokedIds>>
        /\ calls' = [calls EXCEPT ![c] =
             [Return(c, "internal", "") EXCEPT !.fault = "store"]]
  /\ UNCHANGED <<nextId, audit_logs, outbox, api_keys, ip_whitelist>>

\* Lines 368-390: the audit record, then the response.
RegenerateAudit(c) ==
  /\ calls[c].op = "regenerate" /\ calls[c].pc = "audit"
  /\ \/ /\ audit_logs' = Append(audit_logs, AuditRecord("regenerate", calls[c].id))
        /\ calls' = [calls EXCEPT ![c] = Return(c, "ok", "")]
     \/ /\ UNCHANGED audit_logs
        /\ calls' = [calls EXCEPT ![c] =
             [Return(c, "internal", "") EXCEPT !.fault = "audit"]]
  /\ UNCHANGED <<passwords, nextId, outbox, api_keys, ip_whitelist, secrets, revokedIds>>

\* --------------------------------------------------------------------- api
\* Lines 408-480: method, credential, allow-list and body checks, then
\* uuidv4(), encryptPassword and set().  The response is the HTTP status.
ApiBegin(c) ==
  /\ Arrives(c)
  /\ \E method \in Methods, apiKey \in ApiKeyInputs, clientIP \in ClientIPs,
        recipientEmail \in EmailInputs, password \in PasswordInputs,
        sendEmail \in BOOLEAN, iv \in IVs :
       IF method # "POST"
         THEN /\ calls' = [calls EXCEPT ![c] = Rejected("api", 0, "405")]
              /\ UNCHANGED <<passwords, nextId, secrets>>
       ELSE IF apiKey = <<>>
         THEN /\ calls' = [calls EXCEPT ![c] = Rejected("api", 0, "401")]
              /\ UNCHANGED <<passwords, nextId, secrets>>
       ELSE IF ActiveKeys(hashApiKey(apiKey)) = {}
         THEN /\ calls' = [calls EXCEPT ![c] = Rejected("api", 0, "401")]
              /\ UNCHANGED <<passwords, nextId, secrets>>
       ELSE IF ip_whitelist # {} /\ clientIP \notin ip_whitelist
         THEN /\ calls' = [calls EXCEPT ![c] = Rejected("api", 0, "403")]
              /\ UNCHANGED <<passwords, nextId, secrets>>
       ELSE IF recipientEmail = "" \/ password = ""
         THEN /\ calls' = [calls EXCEPT ![c] = Rejected("api", 0, "400")]
              /\ UNCHANGED <<passwords, nextId, secrets>>
       ELSE /\ nextId <= MaxLinks
            /\ passwords' = [passwords EXCEPT ![uuidv4] =
                 ApiPasswordDoc(encryptPassword(password, encryptionKey, iv),
                                recipientEmail, sendEmail)]
            /\ secrets' = [secrets EXCEPT ![uuidv4] = password]
            /\ nextId' = nextId + 1
            /\ \E k \in ActiveKeys(hashApiKey(apiKey)) :
                 calls' = [calls EXCEPT ![c] =
                   [IdleCall EXCEPT !.op = "api", !.pc = "lastUsed", !.id = uuidv4,
                                    !.key = k, !.send = sendEmail, !.committed = TRUE]]
  /\ UNCHANGED <<audit_logs, outbox, api_keys, ip_whitelist, revokedIds>>

\* Lines 482-485: apiKeyDoc.ref.update({lastUsed}); a failure reaches the
\* outer catch (500).
ApiLastUsed(c) ==
  /\ calls[c].op = "api" /\ calls[c].pc = "lastUsed"
  /\ \/ /\ api_keys' = [api_keys EXCEPT ![calls[c].key].lastUsed = "set"]
        /\ calls' = [calls EXCEPT ![c].pc = "audit"]
     \/ /\ UNCHANGED api_keys
        /\ calls' = [calls EXCEPT ![c] =
             [Return(c, "500", "") EXCEPT !.fault = "store"]]
  /\ UNCHANGED <<passwords, nextId, audit_logs, outbox, ip_whitelist, secrets, revokedIds>>

\* Lines 487-499: the audit record; a failure reaches the outer catch (500).
ApiAudit(c) ==
  /\ calls[c].op = "api" /\ calls[c].pc = "audit"
  /\ \/ /\ audit_logs' = Append(audit_logs, AuditRecord("api_call", calls[c].id))
        /\ calls' = [calls EXCEPT ![c] =
             IF calls[c].send THEN [calls[c] EXCEPT !.pc = "mail"]
             ELSE Return(c, "201", "")]
     \/ /\ UNCHANGED audit_logs
        /\ calls' = [calls EXCEPT ![c] =
             [Return(c, "500", "") EXCEPT !.fault = "audit"]]
  /\ UNCHANGED <<passwords, nextId, outbox, api_keys, ip_whitelist, secrets, revokedIds>>

\* Lines 504-561: sendMail (a failure is caught and logged) and the 201.
ApiMail(c) ==
  /\ calls[c].op = "api" /\ calls[c].pc = "mail"
  /\ \/ /\ outbox' = outbox \cup {calls[c].id}
        /\ calls' = [calls EXCEPT ![c] = Return(c, "201", "")]
     \/ /\ UNCHANGED outbox
        /\ calls' = [calls EXCEPT ![c] =
             [Return(c, "201", "") EXCEPT !.fault = "smtp"]]
  /\ UNCHANGED <<passwords, nextId, audit_logs, api_keys, ip_whitelist, secrets, revokedIds>>

\* A handler that looks for the credential before it looks at the method.
ApiKeyCheckKeyFirst(c, method, apiKey) ==
  /\ Arrives(c)
  /\   IF apiKey = <<>>
         THEN calls' = [calls EXCEPT ![c] = Rejected("api", 0, "401")]
       ELSE IF ActiveKeys(hashApiKey(apiKey)) = {}
         THEN calls' = [calls EXCEPT ![c] = Rejected("api", 0, "401")]
       ELSE IF method # "POST"
         THEN calls' = [calls EXCEPT ![c] = Rejected("api", 0, "405")]
       ELSE \E k \in ActiveKeys(hashApiKey(apiKey)) :
              calls' = [calls EXCEPT ![c] =
                [IdleCall EXCEPT !.op = "api", !.pc = "whitelist", !.key = k]]
  /\ UNCHANGED <<passwords, nextId, audit_logs, outbox, api_keys, ip_whitelist,
                 secrets, revokedIds>>

\* The same handler for a deployment whose api_keys and ip_whitelist
\* collections change while requests are in flight: one step per read.
\* Lines 408-435 for one request: method, header and the api_keys query.
ApiKeyCheck(c, method, apiKey) ==
  /\ Arrives(c)
  /\   IF method # "POST"
         THEN calls' = [calls EXCEPT ![c] = Rejected("api", 0, "405")]
       ELSE IF apiKey = <<>>
         THEN calls' = [calls EXCEPT ![c] = Rejected("api", 0, "401")]
       ELSE IF ActiveKeys(hashApiKey(apiKey)) = {}
         THEN calls' = [calls EXCEPT ![c] = Rejected("api", 0, "401")]
       ELSE \E k \in ActiveKeys(hashApiKey(apiKey)) :
              calls' = [calls EXCEPT ![c] =
                [IdleCall EXCEPT !.op = "api", !.pc = "whitelist", !.key = k]]
  /\ UNCHANGED <<passwords, nextId, audit_logs, outbox, api_keys, ip_whitelist,
                 secrets, revokedIds>>

ApiArrive(c) ==
  \E method \in Methods, apiKey \in ApiKeyInputs : ApiKeyCheck(c, method, apiKey)

\* A test without the allowedIPs.length > 0 guard.
ApiWhitelistCheckStrict(c, clientIP) ==
  /\ calls[c].op = "api" /\ calls[c].pc = "whitelist"
  /\ calls' = [calls EXCEPT ![c] =
       IF clientIP \notin ip_whitelist
         THEN Return(c, "403", "")
       ELSE [calls[c] EXCEPT !.pc = "body"]]
  /\ UNCHANGED <<passwords, nextId, audit_logs, outbox, api_keys, ip_whitelist,
                 secrets, revokedIds>>

\* Lines 437-446 for one request: the ip_whitelist read and the test.
ApiWhitelistCheck(c, clientIP) ==
  /\ calls[c].op = "api" /\ calls[c].pc = "whitelist"
  /\ calls' = [calls EXCEPT ![c] =
       IF ip_whitelist # {} /\ clientIP \notin ip_whitelist
         THEN Return(c, "403", "")
       ELSE [calls[c] EXCEPT !.pc = "body"]]
  /\ UNCHANGED <<passwords, nextId, audit_logs, outbox, api_keys, ip_whitelist,
                 secrets, revokedIds>>

ApiWhitelist(c) == \E clientIP \in ClientIPs : ApiWhitelistCheck(c, clientIP)

\* Lines 449-480 for one request: the body check, uuidv4(), encryptPassword
\* and set().
ApiBodyCheck(c, recipientEmail, password, sendEmail, iv) ==
  /\ calls[c].op = "api" /\ calls[c].pc = "body"
  /\   IF recipientEmail = "" \/ password = ""
         THEN /\ calls' = [calls EXCEPT ![c] = Return(c, "400", "")]
              /\ UNCHANGED <<passwords, nextId, secrets>>
       ELSE /\ nextId <= MaxLinks
            /\ passwords' = [passwords EXCEPT ![uuidv4] =
                 ApiPasswordDoc(encryptPassword(password, encryptionKey, iv),
                                recipientEmail, sendEmail)]
            /\ secrets' = [secrets EXCEPT ![uuidv4] = password]
            /\ nextId' = nextId + 1
            /\ calls' = [calls EXCEPT ![c] =
                 [calls[c] EXCEPT !.pc = "lastUsed", !.id = uuidv4,
                                  !.send = sendEmail, !.committed = TRUE]]
  /\ UNCHANGED <<audit_logs, outbox, api_keys, ip_whitelist, revokedIds>>

ApiCreate(c) ==
  \E recipientEmail \in EmailInputs, password \in PasswordInputs,
     sendEmail \in BOOLEAN, iv \in IVs :
    ApiBodyCheck(c, recipientEmail, password, sendEmail, iv)

\* ------------------------------------------------------------ createApiKey
\* A handler that adds the document before it looks up the caller's role.
CreateApiKeyUngated(c, caller, name, apiKey, docId) ==
  /\ Arrives(c)
  /\ docId \notin DOMAIN api_keys
  /\ api_keys' = (docId :> ApiKeyDoc(name, apiKey)) @@ api_keys
  /\ calls' = [calls EXCEPT ![c] =
       IF caller = "anon" THEN Rejected("createApiKey", 0, "unauthenticated")
       ELSE IF name = "" THEN Rejected("createApiKey", 0, "invalid-argument")
       ELSE IF caller \notin DOMAIN users \/ users[caller] # "admin"
         THEN Rejected("createApiKey", 0, "permission-denied")
       ELSE [IdleCall EXCEPT !.op = "createApiKey", !.pc = "audit", !.key = docId,
                             !.apiKey = apiKey, !.committed = TRUE]]
  /\ UNCHANGED <<passwords, nextId, audit_logs, outbox, ip_whitelist, secrets, revokedIds>>

\* Lines 577-608 for one request: the checks, generateApiKey, hashApiKey and
\* the add() of the api_keys document.
CreateApiKeyCall(c, caller, name, apiKey, docId) ==
  /\ Arrives(c)
  /\   IF caller = "anon"
         THEN /\ calls' = [calls EXCEPT ![c] = Rejected("createApiKey", 0, "unauthenticated")]
              /\ UNCHANGED api_keys
       ELSE IF name = ""
         THEN /\ calls' = [calls EXCEPT ![c] = Rejected("createApiKey", 0, "invalid-argument")]
              /\ UNCHANGED api_keys
       ELSE IF caller \notin DOMAIN users \/ users[caller] # "admin"
         THEN /\ calls' = [calls EXCEPT ![c] = Rejected("createApiKey", 0, "permission-denied")]
              /\ UNCHANGED api_keys
       ELSE /\ docId \notin DOMAIN api_keys
            /\ api_keys' = (docId :> ApiKeyDoc(name, apiKey)) @@ api_keys
            /\ calls' = [calls EXCEPT ![c] =
                 [IdleCall EXCEPT !.op = "createApiKey", !.pc = "audit", !.key = docId,
                                  !.apiKey = apiKey, !.committed = TRUE]]
  /\ UNCHANGED <<passwords, nextId, audit_logs, outbox, ip_whitelist, secrets, revokedIds>>

CreateApiKeyBegin(c) ==
  \E caller \in Callers, name \in KeyNames, apiKey \in GeneratedKeys, docId \in KeyDocIds :
    CreateApiKeyCall(c, caller, name, apiKey, docId)

\* Lines 610-630: the audit record, then the response, which carries the
\* key.
CreateApiKeyAudit(c) ==
  /\ calls[c].op = "createApiKey" /\ calls[c].pc = "audit"
  /\ \/ /\ audit_logs' = Append(audit_logs, AuditRecord("settings_change", calls[c].key))
        /\ calls' = [calls EXCEPT ![c] =
             [Return(c, "ok", "") EXCEPT !.key = calls[c].key, !.apiKey = calls[c].apiKey]]
     \/ /\ UNCHANGED audit_logs
        /\ calls' = [calls EXCEPT ![c] =
             [Return(c, "internal", "") EXCEPT !.key = calls[c].key, !.fault = "audit"]]
  /\ UNCHANGED <<passwords, nextId, outbox, api_keys, ip_whitelist, secrets, revokedIds>>

\* ------------------------------------------------------------ settings page
\* ApiKeysSettings handleToggleActive: updateDoc({active: !currentActive}),
\* where currentActive is what the list showed when it was loaded.
HandleToggleActive(keyId, currentActive) ==
  /\ keyId \in DOMAIN api_keys
  /\ api_keys' = [api_keys EXCEPT ![keyId].active = ~currentActive]
  /\ UNCHANGED <<passwords, nextId, audit_logs, outbox, ip_whitelist, calls, secrets, revokedIds>>

\* IpWhitelistSettings handleAdd: addDoc({ip: newIp.trim(), ...}).
HandleAdd(newIp) ==
  /\ ip_whitelist' = ip_whitelist \cup {newIp}
  /\ UNCHANGED <<passwords, nextId, audit_logs, outbox, api_keys, calls, secrets, revokedIds>>

\* IpWhitelistSettings handleDelete: deleteDoc of a listed entry.
HandleDeleteIp(ip) ==
  /\ ip \in ip_whitelist
  /\ ip_whitelist' = ip_whitelist \ {ip}
  /\ UNCHANGED <<passwords, nextId, audit_logs, outbox, api_keys, calls, secrets, revokedIds>>

\* ------------------------------------------------------- sendPasswordEmail
\* Lines 653-685 for one request: the checks and the read of the document.
SendCall(c, caller, passwordId) ==
  /\ Arrives(c)
  /\   calls' = [calls EXCEPT ![c] =
         IF caller = "anon" THEN Rejected("send", 0, "unauthenticated")
         ELSE IF passwordId = 0 THEN Rejected("send", 0, "invalid-argument")
         ELSE IF StaffGate(caller) # "" THEN Rejected("send", 0, StaffGate(caller))
         ELSE IF passwords[passwordId] = NoDoc THEN Rejected("send", passwordId, "not-found")
         ELSE [IdleCall EXCEPT !.op = "send", !.pc = "mail", !.id = passwordId]]
  /\ UNCHANGED <<passwords, nextId, audit_logs, outbox, api_keys, ip_whitelist, secrets, revokedIds>>

SendBegin(c) ==
  \E caller \in Callers, passwordId \in LinkIds \cup {0} : SendCall(c, caller, passwordId)

\* A handler that catches the sendMail failure and goes on.
SendMailSwallows(c) ==
  /\ calls[c].op = "send" /\ calls[c].pc = "mail"
  /\ \/ /\ outbox' = outbox \cup {calls[c].id}
        /\ calls' = [calls EXCEPT ![c].pc = "update"]
     \/ /\ UNCHANGED outbox
        /\ calls' = [calls EXCEPT ![c] =
             [calls[c] EXCEPT !.pc = "update", !.fault = "smtp"]]
  /\ UNCHANGED <<passwords, nextId, audit_logs, api_keys, ip_whitelist, secrets, revokedIds>>

\* Lines 727-736: sendMail; a failure reaches the outer catch.
SendMail(c) ==
  /\ calls[c].op = "send" /\ calls[c].pc = "mail"
  /\ \/ /\ outbox' = outbox \cup {calls[c].id}
        /\ calls' = [calls EXCEPT ![c].pc = "update"]
     \/ /\ UNCHANGED outbox
        /\ calls' = [calls EXCEPT ![c] =
             [Return(c, "internal", "") EXCEPT !.fault = "smtp"]]
  /\ UNCHANGED <<passwords, nextId, audit_logs, api_keys, ip_whitelist, secrets, revokedIds>>

\* Lines 738-743: the unconditional update to 'sent'.
SendUpdate(c) ==
  /\ calls[c].op = "send" /\ calls[c].pc = "update"
  /\ passwords' = [passwords EXCEPT ![calls[c].id] = SentUpdate(@)]
  /\ calls' = [calls EXCEPT ![c] = [calls[c] EXCEPT !.pc = "audit", !.committed = TRUE]]
  /\ UNCHANGED <<nextId, audit_logs, outbox, api_keys, ip_whitelist, secrets, revokedIds>>

\* A handler that skips the audit record when the link already has one.
SendAuditOnce(c) ==
  /\ calls[c].op = "send" /\ calls[c].pc = "audit"
  /\ \/ /\ audit_logs' =
             IF \E i \in DOMAIN audit_logs :
                  audit_logs[i] = AuditRecord("send_email", calls[c].id)
               THEN audit_logs
             ELSE Append(audit_logs, AuditRecord("send_email", calls[c].id))
        /\ calls' = [calls EXCEPT ![c] = Return(c, "ok", "")]
     \/ /\ UNCHANGED audit_logs
        /\ calls' = [calls EXCEPT ![c] =
             [Return(c, "internal", "") EXCEPT !.fault = "audit"]]
  /\ UNCHANGED <<passwords, nextId, outbox, api_keys, ip_whitelist, secrets, revokedIds>>

\* Lines 745-759: the audit record, then the response.
SendAudit(c) ==
  /\ calls[c].op = "send" /\ calls[c].pc = "audit"
  /\ \/ /\ audit_logs' = Append(audit_logs, AuditRecord("send_email", calls[c].id))
        /\ calls' = [calls EXCEPT ![c] = Return(c, "ok", "")]
     \/ /\ UNCHANGED audit_logs
        /\ calls' = [calls EXCEPT ![c] =
             [Return(c, "internal", "") EXCEPT !.fault = "audit"]]
  /\ UNCHANGED <<passwords, nextId, outbox, api_keys, ip_whitelist, secrets, revokedIds>>

\* ------------------------------------------------------ queue page: revoke
\* QueuePage handleRevoke: a direct updateDoc from the staff browser, with
\* no read of the current status and no audit record.  The row and its
\* button come from an earlier load of the list.
HandleRevoke(id) ==
  /\ passwords[id] # NoDoc
  /\ passwords' = [passwords EXCEPT ![id] = RevokedUpdate(@)]
  /\ revokedIds' = revokedIds \cup {id}
  /\ UNCHANGED <<nextId, audit_logs, outbox, calls, api_keys, ip_whitelist, secrets>>

\* ------------------------------------------------------------ specification
\* The responses of a request turned away by a check on its own inputs or on
\* the caller: such a request reads at most the users, api_keys and
\* ip_whitelist collections and writes nothing.
GateErrors ==
  {"unauthenticated", "invalid-argument", "permission-denied",
   "405", "401", "403", "400"}

\* The request that arrives as call c is one the gates let through.
Admitted(c) == calls'[c].result \notin GateErrors

\* The disclosure protocol: staff, integrations and recipients issue
\* requests that pass the gates, in any interleaving.
CreateRequest(c) == CreateBegin(c) /\ Admitted(c)
CheckRequest(c) == CheckPasswordLink(c) /\ Admitted(c)
ViewRequest(c) == ViewBegin(c) /\ Admitted(c)
RegenerateRequest(c) == RegenerateBegin(c) /\ Admitted(c)
ApiRequest(c) == ApiBegin(c) /\ Admitted(c)
SendRequest(c) == SendBegin(c) /\ Admitted(c)

Next ==
  \/ \E id \in LinkIds : HandleRevoke(id)
  \/ \E c \in Calls :
    \/ CreateRequest(c)
    \/ CreateAudit(c)
    \/ CreateMail(c)
    \/ CreateUpdate(c)
    \/ CheckRequest(c)
    \/ ViewRequest(c)
    \/ ViewTxnRead(c)
    \/ ViewTxnCommit(c)
    \/ ViewAudit(c)
    \/ RegenerateRequest(c)
    \/ RegenerateTxn(c)
    \/ RegenerateAudit(c)
    \/ ApiRequest(c)
    \/ ApiLastUsed(c)
    \/ ApiAudit(c)
    \/ ApiMail(c)
    \/ SendRequest(c)
    \/ SendMail(c)
    \/ SendUpdate(c)
    \/ SendAudit(c)

Spec == Init /\ [][Next]_vars
\* ------------------------------------------------- the race of recipients
\* The link the recipients race for, and the states createPasswordLink and
\* api leave a fresh link in: pending, or sent after the notification.
RaceLink == CHOOSE i \in LinkIds : \A j \in LinkIds : i <= j

RaceDocs(encrypted) ==
  {NewPasswordDoc(encrypted, "alice@example.org"),
   SentUpdate(NewPasswordDoc(encrypted, "alice@example.org")),
   ApiPasswordDoc(encrypted, "alice@example.org", FALSE),
   ApiPasswordDoc(encrypted, "alice@example.org", TRUE)}

RaceInit ==
  \E password \in Passwords, iv \in IVs :
    \E doc \in RaceDocs(encryptPassword(password, encryptionKey, iv)) :
      /\ passwords = [i \in LinkIds |-> IF i = RaceLink THEN doc ELSE NoDoc]
      /\ nextId = RaceLink + 1
      /\ audit_logs =
           <<AuditRecord(IF doc.source = "api" THEN "api_call" ELSE "create", RaceLink)>>
      /\ outbox = IF doc.status = "sent" THEN {RaceLink} ELSE {}
      /\ api_keys = IF doc.source = "api"
                      THEN [ProvisionedKeys EXCEPT !.keyA.lastUsed = "set"]
                      ELSE ProvisionedKeys
      /\ ip_whitelist = {}
      /\ calls = [c \in Calls |-> IdleCall]
      /\ secrets = [i \in LinkIds |-> IF i = RaceLink THEN password ELSE ""]
      /\ revokedIds = {}

\* Only viewPassword calls arrive, all for RaceLink.
RaceRequest(c) == ViewBegin(c) /\ calls'[c].id = RaceLink

RaceNext ==
  \E c \in Calls :
    \/ RaceRequest(c)
    \/ ViewTxnRead(c)
    \/ ViewTxnCommit(c)
    \/ ViewAudit(c)

SpecRace == RaceInit /\ [][RaceNext]_vars

\* ---------------------------------------------------------- the viewer page
\* PasswordViewPage, useEffect and checkPasswordLink (lines 226-252): a
\* recipient opens /p/:id and the page calls checkPasswordLink; the answer
\* valid puts the page in state 'ready', any other 'expired'.
PageLoad(c) == CheckPasswordLink(c) /\ calls'[c].id # 0

\* The pages in state 'ready': the links whose load-time check was answered
\* valid.
PagesReady == {calls[p].id : p \in {q \in Calls : calls[q].op = "check"
                                                 /\ calls[q].result = "valid"}}

\* handleRevealPassword (lines 254-269), bound to the reveal button that is
\* rendered in state 'ready' only: the page calls viewPassword.
HandleRevealPassword(c) == ViewBegin(c) /\ calls'[c].id \in PagesReady

\* Recipients open the page of one link and of an unknown id and reveal,
\* while staff may revoke the link.
PageNext ==
  \/ \E id \in LinkIds : HandleRevoke(id)
  \/ \E c \in Calls :
    \/ PageLoad(c)
    \/ HandleRevealPassword(c)
    \/ ViewTxnRead(c)
    \/ ViewTxnCommit(c)
    \/ ViewAudit(c)

SpecPage == RaceInit /\ [][PageNext]_vars

\* ------------------------------------------------ viewPassword, contended
\* The steps of one viewPassword call after its arrival.
ViewSteps(c) ==
  \/ ViewTxnRead(c)
  \/ ViewTxnCommit(c)
  \/ ViewTxnAbort(c)
  \/ ViewAudit(c)

ContendNext ==
  \E c \in Calls :
    \/ RaceRequest(c)
    \/ ViewSteps(c)

\* The race on one link with a store that may abort any commit.  The
\* functions runtime runs every await of an invocation to its end: each
\* call's next step is eventually taken.
SpecContend ==
  RaceInit /\ [][ContendNext]_vars /\ \A c \in Calls : WF_vars(ViewSteps(c))

\* ------------------------------------------------------------- the gates
\* An admin has saved one address in the allow-list before the requests
\* arrive.
GateInit ==
  /\ passwords = [i \in LinkIds |-> NoDoc]
  /\ nextId = 1
  /\ audit_logs = <<>>
  /\ outbox = {}
  /\ api_keys = ProvisionedKeys
  /\ ip_whitelist = {"10.0.0.2"}
  /\ calls = [c \in Calls |-> IdleCall]
  /\ secrets = [i \in LinkIds |-> ""]
  /\ revokedIds = {}

\* Every request, admitted or not, of the gated operations.
GateNext ==
  \E c \in Calls :
    \/ CreateBegin(c)
    \/ CreateAudit(c)
    \/ CreateMail(c)
    \/ CreateUpdate(c)
    \/ RegenerateBegin(c)
    \/ RegenerateTxn(c)
    \/ RegenerateAudit(c)
    \/ SendBegin(c)
    \/ SendMail(c)
    \/ SendUpdate(c)
    \/ SendAudit(c)
    \/ CreateApiKeyBegin(c)
    \/ CreateApiKeyAudit(c)
    \/ ApiBegin(c)
    \/ ApiLastUsed(c)
    \/ ApiAudit(c)
    \/ ApiMail(c)

SpecGate == GateInit /\ [][GateNext]_vars

\* ------------------------------------------------------ encryption alone
\* The keys and IVs of the encryption test, and the strings it encrypts:
\* the empty string, ordinary passwords and an ill-formed string.
TestKeys == {"K32", "K32b"}
TestIVs == {"iv1", "iv2"}
Plaintexts == PasswordInputs \cup IllFormedPasswords

\* test-encryption.js, lines 20-31: a string is encrypted under a key and
\* a fresh IV.
TestEncrypt(c) ==
  /\ Arrives(c)
  /\ \E password \in Plaintexts, key \in TestKeys, iv \in TestIVs :
       LET encrypted == encryptPassword(password, key, iv)
       IN  calls' = [calls EXCEPT ![c] =
             [IdleCall EXCEPT !.op = "test", !.pc = "decrypt", !.pw = password,
                              !.key = key,
                              !.snap = [NoDoc EXCEPT
                                 !.encryptedPassword = encrypted.encryptedPassword,
                                 !.iv = encrypted.iv,
                                 !.authTag = encrypted.authTag]]]
  /\ UNCHANGED <<passwords, nextId, audit_logs, outbox, api_keys, ip_whitelist,
                 secrets, revokedIds>>

\* test-encryption.js, lines 33-41: the three values are decrypted under
\* the same key.
TestDecrypt(c) ==
  /\ calls[c].op = "test" /\ calls[c].pc = "decrypt"
  /\ LET d == decryptPassword(calls[c].snap.encryptedPassword, calls[c].snap.iv,
                              calls[c].snap.authTag, calls[c].key)
     IN  calls' = [calls EXCEPT ![c] =
           [Return(c, IF d.ok THEN "ok" ELSE "error", d.value)
              EXCEPT !.pw = calls[c].pw, !.key = calls[c].key]]
  /\ UNCHANGED <<passwords, nextId, audit_logs, outbox, api_keys, ip_whitelist,
                 secrets, revokedIds>>

\* A technician creates a link for any non-empty string.
CryptoCreate(c) ==
  \E password \in Plaintexts, iv \in IVs :
    /\ password # ""
    /\ CreateCall(c, "tech", "alice@example.org", password, FALSE, iv)

CryptoNext ==
  \E c \in Calls :
    \/ TestEncrypt(c)
    \/ TestDecrypt(c)
    \/ CryptoCreate(c)
    \/ CreateAudit(c)
    \/ ViewRequest(c)
    \/ ViewTxnRead(c)
    \/ ViewTxnCommit(c)
    \/ ViewAudit(c)

SpecCrypto == Init /\ [][CryptoNext]_vars

\* ------------------------------------------------- the api and its settings
\* Integrations call the api while an admin activates and deactivates
\* credentials on the settings page.
KeysNext ==
  \/ \E keyId \in KeyDocIds, currentActive \in BOOLEAN :
       HandleToggleActive(keyId, currentActive)
  \/ \E c \in Calls :
    \/ ApiArrive(c)
    \/ ApiWhitelist(c)
    \/ ApiCreate(c)
    \/ ApiLastUsed(c)
    \/ ApiAudit(c)
    \/ ApiMail(c)

SpecKeys == Init /\ [][KeysNext]_vars

\* Integrations call the api while an admin edits the allow-list.
AllowNext ==
  \/ \E newIp \in WhitelistEntries : HandleAdd(newIp)
  \/ \E ip \in WhitelistEntries : HandleDeleteIp(ip)
  \/ \E c \in Calls :
    \/ ApiArrive(c)
    \/ ApiWhitelist(c)
    \/ ApiCreate(c)
    \/ ApiLastUsed(c)
    \/ ApiAudit(c)
    \/ ApiMail(c)

SpecAllow == Init /\ [][AllowNext]_vars

\* ------------------------------------------------------ creation inputs
\* A recipient address without an '@'.
MalformedEmails == {"alice.example.org"}
AnyEmails == EmailInputs \cup MalformedEmails

ValidCreate(c) ==
  \E caller \in Callers, recipientEmail \in AnyEmails,
     password \in PasswordInputs, sendNotification \in BOOLEAN, iv \in IVs :
    CreateCall(c, caller, recipientEmail, password, sendNotification, iv)

ValidApiCreate(c) ==
  \E recipientEmail \in AnyEmails, password \in PasswordInputs,
     sendEmail \in BOOLEAN, iv \in IVs :
    ApiBodyCheck(c, recipientEmail, password, sendEmail, iv)

\* Staff and integrations create links from any recipient address.
ValidNext ==
  \E c \in Calls :
    \/ ValidCreate(c)
    \/ CreateAudit(c)
    \/ CreateMail(c)
    \/ CreateUpdate(c)
    \/ ApiArrive(c)
    \/ ApiWhitelist(c)
    \/ ValidApiCreate(c)
    \/ ApiLastUsed(c)
    \/ ApiAudit(c)
    \/ ApiMail(c)

SpecValid == Init /\ [][ValidNext]_vars

\* ------------------------------------------------------------------ claims
IsCleared(doc) == doc.encryptedPassword = <<>> /\ doc.iv = <<>> /\ doc.authTag = <<>>

\* The viewPassword calls on id that returned the plaintext.
Reveals(id) ==
  {c \in Calls : calls[c].op = "view" /\ calls[c].id = id /\ calls[c].result = "ok"}

\* Call c of operation op takes the step that leaves position pc.
Leaves(c, op, pc) ==
  calls[c].op = op /\ calls[c].pc = pc /\ calls'[c].pc # pc

\* C1 (stated as claimed; refuted under SpecRace): once N >= 2 concurrent
\* viewPassword calls on a pending or sent link have all returned, exactly
\* one of them returned the plaintext submitted at creation, the other N-1
\* failed with failed-precondition, the ciphertext fields are empty and the
\* status is viewed.
C1_ExactlyOneOfNReveals ==
  LET arrived == {c \in Calls : calls[c].pc # "idle"}
  IN  (Cardinality(arrived) >= 2 /\ \A c \in arrived : calls[c].pc = "done") =>
        /\ Cardinality(Reveals(RaceLink)) = 1
        /\ \A c \in Reveals(RaceLink) : calls[c].ret = secrets[RaceLink]
        /\ \A c \in arrived \ Reveals(RaceLink) :
             calls[c].result = "failed-precondition"
        /\ IsCleared(passwords[RaceLink])
        /\ passwords[RaceLink].status = "viewed"
\* C2: at most one viewPassword call per link ever returns a plaintext.
C2_AtMostOneReveal ==
  \A id \in LinkIds : Cardinality(Reveals(id)) <= 1

\* C2's case: a link was revealed and a further viewPassword call on it has
\* returned as well.
C2_Witness ==
  \E id \in LinkIds, c \in Calls :
    /\ Reveals(id) # {}
    /\ c \notin Reveals(id)
    /\ calls[c].op = "view" /\ calls[c].id = id /\ calls[c].pc = "done"

\* C3 (stated as claimed; refuted): no step moves a link whose status is
\* viewed, revoked or expired to pending or sent.
C3_StatusMonotonic ==
  [][\A id \in LinkIds :
       IsUsed(passwords[id].status) => passwords'[id].status \notin {"pending", "sent"}]_vars

\* C4 (stated as claimed; refuted): a viewPassword transaction that reads a
\* link after it has been revoked fails with failed-precondition.
C4_RevokedStaysUnusable ==
  [][\A c \in Calls :
       (Leaves(c, "view", "txn") /\ calls[c].id \in revokedIds) =>
         calls'[c].result = "failed-precondition"]_vars

\* C5 (stated as claimed; refuted): after a viewPassword call has returned
\* the plaintext of a link, a checkPasswordLink call on it answers
\* valid: false and a viewPassword transaction that reads it fails with
\* failed-precondition.
C5_RevealedStaysInvalid ==
  [][\A c \in Calls :
       /\ (calls[c].pc = "idle" /\ calls'[c].op = "check" /\ Reveals(calls'[c].id) # {}) =>
            calls'[c].result = "invalid"
       /\ (Leaves(c, "view", "txn") /\ Reveals(calls[c].id) # {}) =>
            calls'[c].result = "failed-precondition"]_vars

\* C6 (stated as claimed; refuted): a viewPassword call whose transaction
\* committed returns the plaintext to its caller.
C6_CommittedRevealIsDelivered ==
  \A c \in Calls :
    (calls[c].op = "view" /\ calls[c].committed /\ calls[c].pc = "done") =>
      (calls[c].result = "ok" /\ calls[c].ret = secrets[calls[c].id])

\* C7 (stated as claimed; refuted): a call whose audit_logs write failed
\* after its link mutation was applied still returns its success response.
C7_AuditFailureIsSwallowed ==
  \A c \in Calls :
    (calls[c].pc = "done" /\ calls[c].committed /\ calls[c].fault = "audit") =>
      calls[c].result \in {"ok", "201"}

\* C8 (stated as claimed; refuted): when regeneratePasswordLink's
\* transaction commits, the original is revoked and points to the new link,
\* and the new link is pending and points back; when the call fails, neither
\* the new link nor the update of the original is visible.
C8_RegenerateAllOrNothing ==
  [][\A c \in Calls :
       /\ (calls[c].op = "regenerate" /\ ~calls[c].committed /\ calls'[c].committed) =>
            /\ passwords'[calls[c].orig].status = "revoked"
            /\ passwords'[calls[c].orig].regeneratedTo = calls[c].id
            /\ passwords'[calls[c].id].status = "pending"
            /\ passwords'[calls[c].id].regeneratedFrom = calls[c].orig
       /\ (calls[c].op = "regenerate" /\ calls[c].pc # "done" /\ calls'[c].pc = "done"
             /\ calls'[c].result # "ok") =>
            /\ passwords'[calls[c].id] = NoDoc
            /\ passwords'[calls[c].orig].regeneratedTo # calls[c].id]_vars

\* C9: once a ciphertext field of a link is empty, no step writes a
\* non-empty value to it.
C9_ClearedStaysCleared ==
  [][\A id \in LinkIds :
       passwords[id] # NoDoc =>
         /\ (passwords[id].encryptedPassword = <<>> => passwords'[id].encryptedPassword = <<>>)
         /\ (passwords[id].iv = <<>> => passwords'[id].iv = <<>>)
         /\ (passwords[id].authTag = <<>> => passwords'[id].authTag = <<>>)]_vars

\* C9's case: a link whose ciphertext was cleared has since been written by
\* another operation.
C9_Witness ==
  \E id \in LinkIds :
    /\ passwords[id] # NoDoc
    /\ IsCleared(passwords[id])
    /\ passwords[id].status # "viewed"

\* decryptPassword throws on the document the transaction reads.
DecryptFails(doc) ==
  /\ doc # NoDoc
  /\ ~IsUsed(doc.status)
  /\ ~decryptPassword(doc.encryptedPassword, doc.iv, doc.authTag, encryptionKey).ok

C16_SentOnlyAfterDispatch ==
  [][\A id \in LinkIds :
       /\ (passwords[id] = NoDoc /\ passwords'[id] # NoDoc) =>
            passwords'[id].status = "pending"
       /\ (passwords'[id].status = "sent" \/ passwords'[id].emailSent) =>
            id \in outbox']_vars

\* C17: when sendMail fails inside createPasswordLink or api, the step
\* leaves the passwords collection as it was, the link exists, and the call
\* returns its success response ("ok", 201).
C17_MailFailureKeepsLink ==
  [][\A c \in Calls :
       (calls[c].op \in {"create", "api"} /\ calls[c].pc = "mail"
          /\ calls'[c].fault = "smtp") =>
         /\ passwords' = passwords
         /\ passwords'[calls[c].id] # NoDoc
         /\ calls'[c].pc = "done"
         /\ calls'[c].result = (IF calls[c].op = "create" THEN "ok" ELSE "201")]_vars

\* C17's case: the notification of a link failed, the creation call returned
\* success, and a recipient has since been given the link's secret.
C17_Witness ==
  \E c \in Calls, v \in Calls :
    /\ calls[c].op \in {"create", "api"} /\ calls[c].fault = "smtp"
    /\ calls[c].result \in {"ok", "201"}
    /\ calls[v].op = "view" /\ calls[v].id = calls[c].id
    /\ calls[v].result = "ok" /\ calls[v].ret = secrets[calls[c].id]

\* C18 (stated as claimed; refuted): a revoke of a link whose status is
\* viewed, revoked or expired leaves the link as it was.
C18_RevokeOfTerminalIsRefused ==
  [][\A id \in LinkIds :
       (HandleRevoke(id) /\ IsUsed(passwords[id].status)) =>
         passwords'[id] = passwords[id]]_vars

\* C20 (stated as claimed; refuted): once a call of createPasswordLink, api
\* or regeneratePasswordLink that persisted a link has returned, audit_logs
\* holds a record of kind create whose target is the new link.
C20_CreationIsAudited ==
  \A c \in Calls :
    (calls[c].op \in {"create", "api", "regenerate"} /\ calls[c].committed
       /\ calls[c].pc = "done") =>
      \E i \in DOMAIN audit_logs : audit_logs[i] = AuditRecord("create", calls[c].id)

\* No stored credential with the hash of apiKey is active.
NoActiveCredential(apiKey) ==
  \A k \in DOMAIN api_keys :
    api_keys[k].keyHash = hashApiKey(apiKey) => ~api_keys[k].active

\* C11: an api POST whose X-API-Key hashes to no stored credential, or only
\* to credentials whose active flag is false at that time (never issued,
\* never activated or deactivated since), is answered 401 and goes no
\* further: it creates no link.
C11_UnknownOrInactiveKeyIs401 ==
  [][\A c \in Calls, apiKey \in ApiKeyInputs :
       (ApiKeyCheck(c, "POST", apiKey) /\ NoActiveCredential(apiKey)) =>
         /\ calls'[c].pc = "done"
         /\ calls'[c].result = "401"
         /\ passwords' = passwords]_vars

\* C11's case: a credential that created a link has been deactivated, and
\* a request that arrived after that creation was answered 401.
C11_Witness ==
  \E k \in DOMAIN api_keys, c \in Calls, d \in Calls :
    /\ api_keys[k].lastUsed = "set" /\ ~api_keys[k].active
    /\ d < c
    /\ calls[d].op = "api" /\ calls[d].result = "201"
    /\ calls[c].op = "api" /\ calls[c].result = "401"

\* The addresses of a CIDR range, as the README and the settings form
\* ("e.g., 192.168.1.100 or 10.0.0.0/24") promise them to be read.
CidrRange(entry) ==
  IF entry = "10.0.0.0/31" THEN {"10.0.0.0", "10.0.0.1"} ELSE {}

\* An allow-list entry matches an address: exactly, or as a CIDR range.
Matches(entry, ip) == entry = ip \/ ip \in CidrRange(entry)

\* C12: for a request with a valid credential, if the allow-list is not
\* empty and the caller's address matches no entry, api answers 403 and
\* creates no link; if the allow-list is empty the request is admitted
\* from any address.
C12_AllowListGate ==
  [][\A c \in Calls, clientIP \in ClientIPs :
       /\ (ApiWhitelistCheck(c, clientIP) /\ ip_whitelist # {}
            /\ \A e \in ip_whitelist : ~Matches(e, clientIP)) =>
              /\ calls'[c].pc = "done"
              /\ calls'[c].result = "403"
              /\ passwords' = passwords
       /\ (ApiWhitelistCheck(c, clientIP) /\ ip_whitelist = {}) =>
              calls'[c].pc = "body"]_vars

\* C12's case: one request was answered 403, the allow-list has since been
\* emptied and a later request has created a link.
C12_Witness ==
  \E c \in Calls, d \in Calls :
    /\ c < d
    /\ calls[c].op = "api" /\ calls[c].result = "403"
    /\ ip_whitelist = {}
    /\ calls[d].op = "api" /\ calls[d].result = "201"

\* C13 (stated as claimed; refuted): a request whose address equals a
\* single-address entry or lies inside a CIDR-range entry of the allow-list
\* passes the allow-list test.
C13_CidrEntryAdmits ==
  [][\A c \in Calls, clientIP \in ClientIPs :
       (ApiWhitelistCheck(c, clientIP)
          /\ \E e \in ip_whitelist : Matches(e, clientIP)) =>
         calls'[c].pc = "body"]_vars

\* The operations C14 lists.
GatedOps == {"create", "regenerate", "send", "createApiKey", "api"}

\* C14: the step in which createPasswordLink, regeneratePasswordLink,
\* sendPasswordEmail, createApiKey or api rejects a request
\* (unauthenticated, permission-denied, invalid-argument, 405, 401, 403,
\* 400) is the request's only step and changes no link, no audit record,
\* no credential and no mail.
C14_RejectionHasNoEffect ==
  [][\A c \in Calls :
       (calls[c].pc # "done" /\ calls'[c].pc = "done"
          /\ calls'[c].op \in GatedOps /\ calls'[c].result \in GateErrors) =>
         /\ calls[c].pc = "idle"
         /\ UNCHANGED <<passwords, nextId, audit_logs, api_keys, outbox,
                        ip_whitelist, secrets>>]_vars

\* C14's case: a request was rejected after an earlier request had stored
\* a link and its audit record.
C14_Witness ==
  \E c \in Calls, d \in Calls :
    /\ d < c
    /\ calls[d].committed /\ calls[d].result \in {"ok", "201"}
    /\ audit_logs # <<>>
    /\ calls[c].op \in GatedOps /\ calls[c].result \in GateErrors

\* Callers that are not admin or technician, and callers that are not admin.
NonStaff == {caller \in Callers :
               caller \notin DOMAIN users \/ users[caller] \notin {"admin", "technician"}}
NonAdmin == {caller \in Callers : caller \notin DOMAIN users \/ users[caller] # "admin"}

\* The answers C15 allows for a caller outside the role.
RoleErrors == {"unauthenticated", "permission-denied"}

\* C15 (stated as claimed; refuted): every request of a caller outside the
\* role is answered unauthenticated or permission-denied.
C15_RoleGateError ==
  [][\A c \in Calls :
       /\ \A caller \in NonStaff, recipientEmail \in EmailInputs,
             password \in PasswordInputs, sendNotification \in BOOLEAN, iv \in IVs :
            CreateCall(c, caller, recipientEmail, password, sendNotification, iv) =>
              calls'[c].result \in RoleErrors
       /\ \A caller \in NonStaff, originalId \in LinkIds \cup {0},
             password \in PasswordInputs :
            RegenerateCall(c, caller, originalId, password) =>
              calls'[c].result \in RoleErrors
       /\ \A caller \in NonStaff, passwordId \in LinkIds \cup {0} :
            SendCall(c, caller, passwordId) => calls'[c].result \in RoleErrors
       /\ \A caller \in NonAdmin, name \in KeyNames, apiKey \in GeneratedKeys,
             docId \in KeyDocIds :
            CreateApiKeyCall(c, caller, name, apiKey, docId) =>
              calls'[c].result \in RoleErrors]_vars

\* The answer to a caller outside the role: unauthenticated without auth,
\* otherwise invalid-argument when a required field is missing, otherwise
\* permission-denied.
RoleAnswer(caller, missing) ==
  IF caller = "anon" THEN "unauthenticated"
  ELSE IF missing THEN "invalid-argument"
  ELSE "permission-denied"

\* C15 (amended): a request of createPasswordLink, regeneratePasswordLink
\* or sendPasswordEmail by a caller who is not admin or technician, and a
\* request of createApiKey by a caller who is not admin, is rejected in its
\* first step and changes nothing; the answer is unauthenticated without
\* auth, otherwise invalid-argument when a required field is missing,
\* otherwise permission-denied.
C15_RoleGateRejects ==
  [][\A c \in Calls :
     (calls[c].pc = "idle" /\ calls'[c].pc # "idle") =>
       /\ calls'[c].op = "create" =>
            \A caller \in NonStaff, recipientEmail \in EmailInputs,
               password \in PasswordInputs, sendNotification \in BOOLEAN, iv \in IVs :
              CreateCall(c, caller, recipientEmail, password, sendNotification, iv) =>
                /\ calls'[c].pc = "done"
                /\ calls'[c].result =
                     RoleAnswer(caller, recipientEmail = "" \/ password = "")
                /\ UNCHANGED <<passwords, audit_logs, api_keys, outbox>>
       /\ calls'[c].op = "regenerate" =>
            \A caller \in NonStaff, originalId \in LinkIds \cup {0},
               password \in PasswordInputs :
              RegenerateCall(c, caller, originalId, password) =>
                /\ calls'[c].pc = "done"
                /\ calls'[c].result = RoleAnswer(caller, originalId = 0 \/ password = "")
                /\ UNCHANGED <<passwords, audit_logs, api_keys, outbox>>
       /\ calls'[c].op = "send" =>
            \A caller \in NonStaff, passwordId \in LinkIds \cup {0} :
              SendCall(c, caller, passwordId) =>
                /\ calls'[c].pc = "done"
                /\ calls'[c].result = RoleAnswer(caller, passwordId = 0)
                /\ UNCHANGED <<passwords, audit_logs, api_keys, outbox>>
       /\ calls'[c].op = "createApiKey" =>
            \A caller \in NonAdmin, name \in KeyNames, apiKey \in GeneratedKeys,
               docId \in KeyDocIds :
              CreateApiKeyCall(c, caller, name, apiKey, docId) =>
                /\ calls'[c].pc = "done"
                /\ calls'[c].result = RoleAnswer(caller, name = "")
                /\ UNCHANGED <<passwords, audit_logs, api_keys, outbox>>]_vars

\* C15's case: one caller was answered unauthenticated, one
\* permission-denied, and a privileged callable has succeeded.
C15_Witness ==
  \E c \in Calls, d \in Calls, e \in Calls :
    /\ calls[c].op \in GatedOps \ {"api"} /\ calls[c].result = "unauthenticated"
    /\ calls[d].op \in GatedOps \ {"api"} /\ calls[d].result = "permission-denied"
    /\ calls[e].op \in GatedOps \ {"api"} /\ calls[e].result = "ok"

C21_RevokeIsAudited ==
  \A id \in revokedIds :
    (\A c \in Calls :
       ~(calls[c].op = "regenerate" /\ calls[c].orig = id /\ calls[c].pc # "done")) =>
      \E i \in DOMAIN audit_logs : audit_logs[i] = AuditRecord("revoke", id)

\* The errors with which viewPassword refuses a link that cannot be used.
RefusalErrors == {"not-found", "failed-precondition"}

\* C23 (stated as claimed; refuted): any two checkPasswordLink calls that
\* found no usable link got the same response, and any two viewPassword
\* calls refused because the link does not exist, was viewed or was revoked
\* got the same error.
C23_RefusalsAreUniform ==
  \A c \in Calls, d \in Calls :
    /\ (calls[c].op = "check" /\ calls[d].op = "check"
          /\ calls[c].result # "valid" /\ calls[d].result # "valid") =>
         calls[c].result = calls[d].result
    /\ (calls[c].op = "view" /\ calls[d].op = "view"
          /\ calls[c].result \in RefusalErrors /\ calls[d].result \in RefusalErrors) =>
         calls[c].result = calls[d].result

\* C26 (stated as claimed; refuted): no step changes the status of a link
\* whose status is viewed, revoked or expired.
C26_TerminalIsFinal ==
  [][\A id \in LinkIds :
       IsUsed(passwords[id].status) => passwords'[id].status = passwords[id].status]_vars

\* The send_email audit records of link id, and the sendPasswordEmail calls
\* on it that returned success.
SendRecords(id) ==
  {i \in DOMAIN audit_logs : audit_logs[i] = AuditRecord("send_email", id)}
SendsDone(id) ==
  {c \in Calls : calls[c].op = "send" /\ calls[c].id = id /\ calls[c].result = "ok"}

\* C28: the update of a sendPasswordEmail call on a link whose status is
\* pending or sent leaves its status sent with emailSent true and changes
\* nothing but status, emailSent and emailSentAt, the first time and every
\* time after; and each link has exactly one send_email audit record per
\* successful send.
C28_SendIsIdempotent ==
  /\ [][\A c \in Calls :
          (Leaves(c, "send", "update")
             /\ passwords[calls[c].id].status \in {"pending", "sent"}) =>
            /\ passwords'[calls[c].id].status = "sent"
            /\ passwords'[calls[c].id].emailSent
            /\ passwords'[calls[c].id] = SentUpdate(passwords[calls[c].id])]_vars
  /\ [](\A id \in LinkIds : Cardinality(SendRecords(id)) = Cardinality(SendsDone(id)))

\* C28's case: two sendPasswordEmail calls on the same link have succeeded,
\* the link is sent and has two send_email records.
C28_Witness ==
  \E id \in LinkIds :
    /\ Cardinality(SendsDone(id)) = 2
    /\ Cardinality(SendRecords(id)) = 2
    /\ passwords[id].status = "sent"

\* C29 (stated as claimed; refuted): for every link n with
\* regeneratedFrom = o, link o has status revoked and regeneratedTo = n.
C29_ChainPointersAgree ==
  \A n \in LinkIds :
    passwords[n].regeneratedFrom # 0 =>
      /\ passwords[passwords[n].regeneratedFrom].status = "revoked"
      /\ passwords[passwords[n].regeneratedFrom].regeneratedTo = n

\* C30: the commit step of viewPassword's transaction writes only if the
\* document is still what the transaction read, and then writes the viewed
\* update of that document; if the document has changed the step writes
\* nothing and the callback runs again on a fresh read (or, the attempts
\* used up, the call fails with internal).
C30_NoCommitOnStaleRead ==
  [][\A c \in Calls :
       Leaves(c, "view", "commit") =>
         /\ calls'[c].committed =>
              /\ calls[c].snap = passwords[calls[c].id]
              /\ ViewDecision(passwords[calls[c].id]).outcome = "ok"
              /\ passwords'[calls[c].id] = ViewedUpdate(calls[c].snap, ViewerIP)
         /\ calls[c].snap # passwords[calls[c].id] =>
              /\ passwords' = passwords
              /\ ~calls'[c].committed
              /\ \/ calls'[c].pc = "txn" /\ calls'[c].attempts = calls[c].attempts + 1
                 \/ calls'[c].pc = "done" /\ calls'[c].result = "internal"]_vars

\* C30's case: a transaction whose read was overtaken by another writer
\* has been sent back to read the link again, which is now used.
C30_Witness ==
  \E c \in Calls :
    /\ calls[c].op = "view" /\ calls[c].pc = "txn" /\ calls[c].attempts >= 2
    /\ IsUsed(passwords[calls[c].id].status)

\* C22: viewPassword always terminates.  A call makes at most MaxAttempts
\* attempts at its transaction; the step at which the store aborts the last
\* one answers 'internal', which is not 'failed-precondition', and leaves
\* the link as it was; and every call that has arrived is eventually
\* answered.
C22_ViewTerminates ==
  /\ [](\A c \in Calls : calls[c].attempts <= MaxAttempts)
  /\ [][\A c \in Calls :
          (ViewTxnAbort(c) /\ calls'[c].pc = "done") =>
            /\ calls'[c].result = "internal"
            /\ calls'[c].result # "failed-precondition"
            /\ ~calls'[c].committed
            /\ passwords' = passwords]_vars
  /\ \A c \in Calls :
       (calls[c].op = "view" /\ calls[c].pc \notin {"idle", "done"})
         ~> (calls[c].pc = "done")

\* C22's case: a call whose retry budget was exhausted has been answered
\* while the link it asked for can still be revealed.
C22_Witness ==
  \E c \in Calls :
    /\ calls[c].op = "view" /\ calls[c].pc = "done"
    /\ calls[c].fault = "contention" /\ calls[c].result = "internal"
    /\ passwords[calls[c].id].status \in {"pending", "sent"}
    /\ ~IsCleared(passwords[calls[c].id])

\* The recipient address or the secret of a creation request is not valid:
\* the address is missing or has no '@', or the secret is missing or empty.
InvalidCreation(recipientEmail, password) ==
  recipientEmail = "" \/ recipientEmail \in MalformedEmails \/ password = ""

\* C24 (stated as claimed; refuted): a creation request of a technician or
\* an admin, or of an integration past the credential and allow-list checks,
\* whose recipient address is missing or has no '@', or whose secret is
\* missing or empty, is rejected with a validation error (invalid-argument,
\* 400) and writes no document.
C24_InvalidInputRejected ==
  [][\A c \in Calls :
       \A recipientEmail \in AnyEmails, password \in PasswordInputs,
          flag \in BOOLEAN, iv \in IVs :
         InvalidCreation(recipientEmail, password) =>
           /\ (calls[c].pc = "idle" /\ calls'[c].op = "create") =>
                \A caller \in {"tech", "admin"} :
                  CreateCall(c, caller, recipientEmail, password, flag, iv) =>
                    (calls'[c].result = "invalid-argument" /\ passwords' = passwords)
           /\ (calls[c].op = "api" /\ calls[c].pc = "body") =>
                (ApiBodyCheck(c, recipientEmail, password, flag, iv) =>
                   (calls'[c].result = "400" /\ passwords' = passwords))]_vars

\* The allow-list has entries and none of them is the caller's address.
IpDisallowed(clientIP) == ip_whitelist # {} /\ clientIP \notin ip_whitelist

ViewRecords(id) ==
  {i \in DOMAIN audit_logs : audit_logs[i] = AuditRecord("view", id)}

\* C31: a link has one audit record of kind view when a viewPassword call
\* on it has returned the plaintext and none otherwise; and the step that
\* writes a view record is taken by a call whose transaction has committed,
\* on a link whose ciphertext is already cleared.
C31_ViewAuditedAfterCommit ==
  /\ [](\A id \in LinkIds :
          Cardinality(ViewRecords(id)) = IF Reveals(id) # {} THEN 1 ELSE 0)
  /\ [][\A id \in LinkIds :
          (Len(audit_logs') > Len(audit_logs)
             /\ audit_logs'[Len(audit_logs')] = AuditRecord("view", id)) =>
            /\ IsCleared(passwords[id])
            /\ \E c \in Calls :
                 /\ calls[c].op = "view" /\ calls[c].id = id /\ calls[c].committed
                 /\ calls'[c].result = "ok"]_vars

\* C31's case: a link was revealed and has its view record, and a further
\* viewPassword call on the same link has returned without adding one.
C31_Witness ==
  \E id \in LinkIds, c \in Calls :
    /\ Reveals(id) # {} /\ Cardinality(ViewRecords(id)) = 1
    /\ calls[c].op = "view" /\ calls[c].id = id /\ calls[c].pc = "done"
    /\ c \notin Reveals(id)

\* C33: a checkPasswordLink call changes nothing in the store and answers
\* valid exactly when the link exists with status pending or sent; the
\* viewer page's load is such a call; a viewPassword call arrives only from
\* the reveal button of a page whose check was answered valid; and a link is
\* viewed only if a viewPassword transaction on it has committed.
C33_CheckIsReadOnly ==
  /\ [][\A c \in Calls :
          /\ (calls[c].pc = "idle" /\ calls'[c].op = "check") =>
               /\ passwords' = passwords /\ audit_logs' = audit_logs
               /\ outbox' = outbox /\ secrets' = secrets
               /\ calls'[c].result = "valid" <=>
                    /\ passwords[calls'[c].id] # NoDoc
                    /\ passwords[calls'[c].id].status \in {"pending", "sent"}
          /\ (calls[c].pc = "idle" /\ calls'[c].op = "view") =>
               calls'[c].id \in PagesReady]_vars
  /\ [](\A id \in LinkIds :
          passwords[id].status = "viewed" =>
            \E c \in Calls :
              calls[c].op = "view" /\ calls[c].id = id /\ calls[c].committed)

\* C33's case: the page of a link was opened and its check answered valid,
\* the link not having been touched since; the page was opened again after a
\* reveal and the check answered invalid.
C33_Witness ==
  \E p \in Calls, q \in Calls :
    /\ calls[p].op = "check" /\ calls[p].result = "valid"
    /\ calls[q].op = "check" /\ calls[q].result = "invalid"
    /\ calls[q].id = calls[p].id
    /\ passwords[calls[p].id].status = "viewed"

\* Record i of audit_logs is the record of the creation of link id, under
\* any of the actions the creating handlers write it with.
IsCreationRecord(i, id) ==
  /\ audit_logs[i].action \in {"create", "api_call", "regenerate"}
  /\ audit_logs[i].targetId = id

\* C32 (stated as claimed; refuted): every send_email or view record in
\* audit_logs comes after the record of the creation of its link.
C32_CreationRecordFirst ==
  \A i \in DOMAIN audit_logs :
    audit_logs[i].action \in {"send_email", "view"} =>
      \E j \in 1..(i - 1) : IsCreationRecord(j, audit_logs[i].targetId)

\* The viewPassword calls on id whose transaction committed.
CommittedViews(id) ==
  {c \in Calls : calls[c].op = "view" /\ calls[c].id = id /\ calls[c].committed}

C35_RevealableHoldsCipher ==
  \A id \in LinkIds :
    passwords[id].status \in {"pending", "sent"} =>
      /\ passwords[id].encryptedPassword # <<>>
      /\ passwords[id].iv # <<>>
      /\ passwords[id].authTag # <<>>

\* C36 (stated as claimed; refuted): when a createPasswordLink call has
\* thrown, or an api call has been answered with a status other than 201,
\* the store holds no link created by that call.
C36_FailedCreationCreatedNothing ==
  \A c \in Calls :
    (calls[c].op \in {"create", "api"} /\ calls[c].pc = "done"
       /\ calls[c].result \notin {"ok", "201"}) =>
      /\ ~calls[c].committed
      /\ calls[c].id # 0 => passwords[calls[c].id] = NoDoc

\* C37: the step at which sendMail fails inside sendPasswordEmail changes
\* no link and no audit record and answers the caller with an error; and a
\* call whose sendMail failed has returned that error without reaching the
\* update or the audit write.
C37_SendFailureChangesNothing ==
  /\ [][\A c \in Calls :
          (Leaves(c, "send", "mail") /\ calls'[c].fault = "smtp") =>
            /\ passwords' = passwords
            /\ audit_logs' = audit_logs
            /\ calls'[c].pc = "done" /\ calls'[c].result = "internal"]_vars
  /\ [](\A c \in Calls :
          (calls[c].op = "send" /\ calls[c].fault = "smtp") =>
            /\ calls[c].pc = "done" /\ calls[c].result = "internal"
            /\ ~calls[c].committed)

\* C37's case: sendMail has failed for a link that was never sent: the link
\* is still pending with emailSent false and has no send_email record.
C37_Witness ==
  \E c \in Calls :
    /\ calls[c].op = "send" /\ calls[c].fault = "smtp" /\ calls[c].pc = "done"
    /\ passwords[calls[c].id].status = "pending"
    /\ ~passwords[calls[c].id].emailSent
    /\ passwords[calls[c].id].emailSentAt = "unset"
    /\ SendRecords(calls[c].id) = {}
====
